---- MODULE Spec2Model ----
(***************************************************************************)
(* Model of the instant-remodel application.                               *)
(*                                                                         *)
(* Part 1 (Spec): the generation session of src/App.tsx, function App:     *)
(* the React state (uploadedImages, generatedImages, isLoading, appState), *)
(* the FileReader batches that have not finished, the generation rounds    *)
(* started by handleGenerateClick whose workers have not all exited, and   *)
(* the generateStyleImage calls issued by handleRegenerateStyle that have  *)
(* not completed.                                                          *)
(*                                                                         *)
(* JavaScript runs one task at a time: a handler, and the continuation of  *)
(* an await together with all the synchronous code and promise reactions   *)
(* that follow it, is one atomic action.  The only points at which other   *)
(* actions interleave are the awaits on generateStyleImage (a fetch) and   *)
(* on the FileReader promises.  setGeneratedImages(prev => ...) updaters   *)
(* are applied by React in call order to the latest state, so each is a    *)
(* read-modify-write of generatedImages inside the action that calls it.   *)
(***************************************************************************)
EXTENDS Integers, Sequences, FiniteSets, TLC

\* ------------------------------------------------------------------ bounds
\* generation rounds whose workers have not all exited
MaxRounds == 1
\* generateStyleImage calls of handleRegenerateStyle not yet completed
MaxRegens == 1
\* FileReader batches (one per handleImageUpload) not yet finished
MaxReads == 2
\* files chosen in one handleImageUpload
MaxBatch == 1
\* length of uploadedImages
MaxImages == 2

\* ------------------------------------------------------- program constants
STYLES == <<"Modern", "Scandinavian", "Industrial", "Bohemian", "Farmhouse", "Minimalist">>

StyleSet == {STYLES[i] : i \in 1..Len(STYLES)}

concurrencyLimit == 2

\* ---------------------------------------------------------------- values
\* result of FileReader.readAsDataURL for a file the input accepts
Files == {"data:image/png;base64,AAAA"}

Batches == UNION {[1..n -> Files] : n \in 1..MaxBatch}

\* what the frontend generateStyleImage resolves to / rejects with
Urls == {"data:image/png;base64,BBBB"}

ErrorMessages == {"Failed to generate image: Image generation failed"}

Outcomes == {[ok |-> TRUE, url |-> u] : u \in Urls}
            \cup {[ok |-> FALSE, error |-> m] : m \in ErrorMessages}

\* GeneratedImage values
PendingImage == [status |-> "pending"]

DoneImage(url) == [status |-> "done", url |-> url]

ErrorImageMutWithUrl(msg) == [status |-> "error", error |-> msg, url |-> ""]

ErrorImage(msg) == [status |-> "error", error |-> msg]

\* the empty record {}
EmptyImages == [s \in {} |-> PendingImage]

\* { ...prev, [style]: image }
SpreadSetMutDrop(prev, style, image) == [s \in {style} |-> image]

SpreadSet(prev, style, image) ==
    [s \in (DOMAIN prev) \cup {style} |-> IF s = style THEN image ELSE prev[s]]

NoRound == [running |-> FALSE]

\* the session (function App)
VARIABLES uploadedImages, generatedImages, isLoading, appState, reads, rounds, regens

\* one request to a backend handler (part 2, below)
VARIABLES variant, request, pc, phase, attempt, calls, answers, waits, results, response

\* one invocation of the frontend generateStyleImage (part 3, below)
VARIABLES client

svars == <<uploadedImages, generatedImages, isLoading, appState, reads, rounds, regens>>

bvars == <<variant, request, pc, phase, attempt, calls, answers, waits, results, response, client>>

vars == <<svars, bvars>>

\* ----------------------------------------------------------------- helpers
RoundIds == 1..MaxRounds

Running(r) == rounds[r].running

\* rendered status: generatedImages[style]?.status
StatusOf(images, style) ==
    IF style \in DOMAIN images THEN images[style].status ELSE "undefined"

RECURSIVE SumOver(_, _)
SumOver(f, S) ==
    IF S = {} THEN 0
    ELSE LET x == CHOOSE y \in S : TRUE IN f[x] + SumOver(f, S \ {x})

PendingReads == SumOver(reads, Batches)

PendingRegens == SumOver(regens, StyleSet)

\* generateStyleImage calls awaited by the workers of round r
RoundInFlight(r, style) ==
    IF Running(r) /\ style \in rounds[r].inFlight THEN 1 ELSE 0

RoundInFlightAll(r) ==
    IF Running(r) THEN Cardinality(rounds[r].inFlight) ELSE 0

\* all generateStyleImage calls issued and not completed, per style
InFlight(style) ==
    regens[style] + SumOver([r \in RoundIds |-> RoundInFlight(r, style)], RoundIds)

InFlightTotal ==
    PendingRegens + SumOver([r \in RoundIds |-> RoundInFlightAll(r)], RoundIds)

\* ---------------------------------------------------------------- Init
SessionInit ==
    /\ uploadedImages = <<>>
    /\ generatedImages = EmptyImages
    /\ isLoading = FALSE
    /\ appState = "idle"
    /\ reads = [b \in Batches |-> 0]
    /\ rounds = [r \in RoundIds |-> NoRound]
    /\ regens = [s \in StyleSet |-> 0]

\* no request is being handled
BackendIdle ==
    /\ variant = "vercel"
    /\ request = [method |-> "none", imagesIsArray |-> FALSE, images |-> <<>>, prompt |-> <<>>]
    /\ pc = "idle"
    /\ phase = "none"
    /\ attempt = 0
    /\ calls = <<>>
    /\ answers = <<>>
    /\ waits = <<>>
    /\ results = <<>>
    /\ response = [status |-> 0]
    /\ client = [state |-> "idle"]

Init == SessionInit /\ BackendIdle

\* ------------------------------------------------------ handleImageUpload
\* The file input is rendered only while appState = 'idle'.  The handler
\* starts the FileReaders and returns; the state changes when they finish.
HandleImageUpload(batch) ==
    /\ appState = "idle"
    /\ PendingReads < MaxReads
    /\ reads' = [reads EXCEPT ![batch] = @ + 1]
    /\ UNCHANGED <<uploadedImages, generatedImages, isLoading, appState, rounds, regens, bvars>>

\* setUploadedImages(prev => [...prev, ...results])
AppendImagesMutReplace(prev, read) == read

AppendImages(prev, read) == prev \o read

UploadFinishedMutLiveImages(batch) ==
    /\ reads[batch] > 0
    /\ Len(uploadedImages) + Len(batch) <= MaxImages
    /\ reads' = [reads EXCEPT ![batch] = @ - 1]
    /\ uploadedImages' = AppendImages(uploadedImages, batch)
    /\ appState' = "image-uploaded"
    /\ generatedImages' = EmptyImages
    /\ rounds' = [r \in RoundIds |->
                    IF Running(r) THEN [rounds[r] EXCEPT !.images = uploadedImages']
                    ELSE rounds[r]]
    /\ UNCHANGED <<isLoading, regens, bvars>>

\* Promise.all(readerPromises).then(...)
UploadFinished(batch) ==
    /\ reads[batch] > 0
    /\ Len(uploadedImages) + Len(batch) <= MaxImages
    /\ reads' = [reads EXCEPT ![batch] = @ - 1]
    /\ uploadedImages' = AppendImages(uploadedImages, batch)
    /\ appState' = "image-uploaded"
    /\ generatedImages' = EmptyImages
    /\ UNCHANGED <<isLoading, rounds, regens, bvars>>

\* Promise.all(readerPromises).catch(...): an alert, no state change
UploadFailed(batch) ==
    /\ reads[batch] > 0
    /\ reads' = [reads EXCEPT ![batch] = @ - 1]
    /\ UNCHANGED <<uploadedImages, generatedImages, isLoading, appState, rounds, regens, bvars>>

\* ---------------------------------------------------- handleGenerateClick
\* A worker at the top of its loop:
\*   while (stylesQueue.length > 0) { style = stylesQueue.shift(); await processStyle(style) }
\* it takes the head of the queue and suspends on that style's call, or exits.
WorkerLoopMutSkip(round) ==
    IF Len(round.stylesQueue) > 1
    THEN [round EXCEPT !.inFlight = @ \cup {Head(round.stylesQueue)},
                       !.stylesQueue = Tail(Tail(round.stylesQueue))]
    ELSE IF Len(round.stylesQueue) > 0
    THEN [round EXCEPT !.inFlight = @ \cup {Head(round.stylesQueue)},
                       !.stylesQueue = Tail(round.stylesQueue)]
    ELSE [round EXCEPT !.exited = @ + 1]

WorkerLoopMutNoAwait(round) ==
    [round EXCEPT !.inFlight = @ \cup {round.stylesQueue[i] : i \in 1..Len(round.stylesQueue)},
                  !.stylesQueue = <<>>,
                  !.exited = @ + 1]

WorkerLoopMutPop(round) ==
    IF Len(round.stylesQueue) > 0
    THEN [round EXCEPT !.inFlight = @ \cup {round.stylesQueue[Len(round.stylesQueue)]},
                       !.stylesQueue = SubSeq(round.stylesQueue, 1, Len(round.stylesQueue) - 1)]
    ELSE [round EXCEPT !.exited = @ + 1]

WorkerLoop(round) ==
    IF Len(round.stylesQueue) > 0
    THEN [round EXCEPT !.inFlight = @ \cup {Head(round.stylesQueue)},
                       !.stylesQueue = Tail(round.stylesQueue)]
    ELSE [round EXCEPT !.exited = @ + 1]

\* Array(concurrencyLimit).fill(null).map(async () => ...): the workers
\* start one after the other, each running up to its first await
RECURSIVE StartWorkers(_, _)
StartWorkers(round, w) ==
    IF w > concurrencyLimit THEN round
    ELSE StartWorkers(WorkerLoop(round), w + 1)

\* const initialImages = {}; STYLES.forEach(style => initialImages[style] = pending)
InitialImagesMutKeep(prev) ==
    [s \in StyleSet |-> IF s \in DOMAIN prev THEN prev[s] ELSE PendingImage]

InitialImages(prev) == [s \in StyleSet |-> PendingImage]

\* await Promise.all(workers) has resolved
AllExitedMutAny(round) ==
    round.stylesQueue = <<>>

AllExited(round) == round.exited = concurrencyLimit

\* The Generate button is rendered only while appState = 'image-uploaded'
\* and uploadedImages is non-empty.
HandleGenerateClick(r) ==
    /\ appState = "image-uploaded"
    /\ uploadedImages # <<>>
    /\ ~Running(r)
    /\ \A q \in RoundIds : q < r => Running(q)
    /\ isLoading' = TRUE
    /\ appState' = "generating"
    /\ generatedImages' = InitialImages(generatedImages)
    /\ rounds' = [rounds EXCEPT ![r] =
           StartWorkers([running |-> TRUE,
                         images |-> uploadedImages,
                         stylesQueue |-> STYLES,
                         inFlight |-> {},
                         exited |-> 0], 1)]
    /\ UNCHANGED <<uploadedImages, reads, regens, bvars>>

\* processStyle after its await: the try branch or the catch branch
ProcessStyleMutEscape(prev, style, outcome) ==
    IF outcome.ok
    THEN SpreadSet(prev, style, DoneImage(outcome.url))
    ELSE prev

ProcessStyleMutReadPrior(prev, style, outcome) ==
    IF style \in DOMAIN prev /\ prev[style].status = "error"
    THEN prev
    ELSE IF outcome.ok
    THEN SpreadSet(prev, style, DoneImage(outcome.url))
    ELSE SpreadSet(prev, style, ErrorImage(outcome.error))

ProcessStyle(prev, style, outcome) ==
    IF outcome.ok
    THEN SpreadSet(prev, style, DoneImage(outcome.url))
    ELSE SpreadSet(prev, style, ErrorImage(outcome.error))

\* The call a worker of round r awaits for style completes: processStyle
\* writes the outcome, the worker goes back to the top of its loop, and when
\* all workers have exited the code after await Promise.all(workers) runs.
CompleteRoundTask(r, style, outcome) ==
    /\ Running(r)
    /\ style \in rounds[r].inFlight
    /\ generatedImages' = ProcessStyle(generatedImages, style, outcome)
    /\ LET next == WorkerLoop([rounds[r] EXCEPT !.inFlight = @ \ {style}]) IN
         IF AllExited(next)
         THEN /\ rounds' = [rounds EXCEPT ![r] = NoRound]
              /\ isLoading' = FALSE
              /\ appState' = "results-shown"
         ELSE /\ rounds' = [rounds EXCEPT ![r] = next]
              /\ UNCHANGED <<isLoading, appState>>
    /\ UNCHANGED <<uploadedImages, reads, regens, bvars>>

\* -------------------------------------------------- handleRegenerateStyle
\* The cards (onShake) are rendered while appState is 'generating' or
\* 'results-shown'.
RegenerateGuardMutNone(style) == FALSE

RegenerateGuard(style) == StatusOf(generatedImages, style) = "pending"

HandleRegenerateStyle(style) ==
    /\ appState \in {"generating", "results-shown"}
    /\ IF uploadedImages = <<>> \/ RegenerateGuard(style)
       THEN UNCHANGED vars
       ELSE /\ PendingRegens < MaxRegens
            /\ generatedImages' = SpreadSet(generatedImages, style, PendingImage)
            /\ regens' = [regens EXCEPT ![style] = @ + 1]
            /\ UNCHANGED <<uploadedImages, isLoading, appState, reads, rounds, bvars>>

\* the try branch or the catch branch after the await
CompleteRegenerate(style, outcome) ==
    /\ regens[style] > 0
    /\ regens' = [regens EXCEPT ![style] = @ - 1]
    /\ generatedImages' = ProcessStyle(generatedImages, style, outcome)
    /\ UNCHANGED <<uploadedImages, isLoading, appState, reads, rounds, bvars>>

\* ------------------------------------------------------------ handleReset
\* 'Clear Photos' is rendered in 'image-uploaded' (with images), 'Start
\* Over' in 'results-shown'.
HandleResetMutCancel ==
    /\ \/ appState = "image-uploaded" /\ uploadedImages # <<>>
       \/ appState = "results-shown"
    /\ uploadedImages' = <<>>
    /\ generatedImages' = EmptyImages
    /\ appState' = "idle"
    /\ rounds' = [r \in RoundIds |-> NoRound]
    /\ regens' = [s \in StyleSet |-> 0]
    /\ UNCHANGED <<isLoading, reads, bvars>>

HandleReset ==
    /\ \/ appState = "image-uploaded" /\ uploadedImages # <<>>
       \/ appState = "results-shown"
    /\ uploadedImages' = <<>>
    /\ generatedImages' = EmptyImages
    /\ appState' = "idle"
    /\ UNCHANGED <<isLoading, reads, rounds, regens, bvars>>

Next ==
    \/ \E b \in Batches : HandleImageUpload(b)
    \/ \E b \in Batches : UploadFinished(b)
    \/ \E b \in Batches : UploadFailed(b)
    \/ \E r \in RoundIds : HandleGenerateClick(r)
    \/ \E r \in RoundIds, s \in StyleSet, o \in Outcomes : CompleteRoundTask(r, s, o)
    \/ \E s \in StyleSet : HandleRegenerateStyle(s)
    \/ \E s \in StyleSet, o \in Outcomes : CompleteRegenerate(s, o)
    \/ HandleReset

Spec == Init /\ [][Next]_vars

\* Every call to the proxy eventually resolves or rejects: a round with a
\* call in flight eventually sees one of its calls complete (its calls are
\* at most concurrencyLimit and a starved one is eventually the only one
\* left), and so does every regeneration.
FairSpec ==
    /\ Spec
    /\ \A r \in RoundIds :
          WF_vars(\E s \in StyleSet, o \in Outcomes : CompleteRoundTask(r, s, o))
    /\ \A s \in StyleSet : WF_vars(\E o \in Outcomes : CompleteRegenerate(s, o))

(***************************************************************************)
(* Part 2 (BackendSpec): one request handled by a backend function.  The   *)
(* repository has three copies of the backend: the Vercel handler          *)
(* (src/App.tsx 456-680), the Netlify handler (src/App.tsx 681-976) and    *)
(* the Netlify handler returning Response (src/DEPLOYMENT.md 234-488).     *)
(*                                                                         *)
(* Texts are sequences of tokens: String.includes(needle) is "some token   *)
(* is the needle", a template literal is the concatenation of its pieces.  *)
(* A data URL is <<"data:", mediaType, ";base64,", payload>>.              *)
(***************************************************************************)
Variants == {"vercel", "netlify", "netlifyResponse"}

maxRetries == 3

initialDelay == 1000

\* images in the body of one request
MaxReqImages == 2

Includes(msg, needle) == \E i \in 1..Len(msg) : msg[i] = needle

\* ------------------------------------------------------------- prompts
PromptHead == "Using the provided image(s) of a room or home exterior, generate a photorealistic remodeled version "

InA == "in a "

DesignStyle == " design style"

PromptTail == ". The new design should be a plausible renovation of the original space, keeping the core structure (windows, doors) in the same location but changing walls, floors, furniture, lighting, and decor to fit the new aesthetic. The output must be a high-quality, photorealistic image."

\* the prompt processStyle and handleRegenerateStyle build for a style
PrimaryPrompt(style) == <<PromptHead, InA, style, DesignStyle, PromptTail>>

getFallbackPrompt(style) ==
    <<"Create a photorealistic image showing a remodeled version of the room in this photo in the ",
      style, " style. Focus on changing the furniture, wall color, and decor.">>

NoStyle == "null"

extractStyleMutAnyWord(prompt) ==
    LET hits == {i \in 1..Len(prompt) :
                    /\ i + 2 <= Len(prompt)
                    /\ prompt[i] = InA
                    /\ prompt[i + 2] = DesignStyle}
    IN  IF hits = {} THEN NoStyle
        ELSE prompt[(CHOOSE i \in hits : \A j \in hits : i <= j) + 1]

\* prompt.match(/in a (Modern|...|Minimalist) design style/): the first match
extractStyle(prompt) ==
    LET hits == {i \in 1..Len(prompt) :
                    /\ i + 2 <= Len(prompt)
                    /\ prompt[i] = InA
                    /\ prompt[i + 1] \in StyleSet
                    /\ prompt[i + 2] = DesignStyle}
    IN  IF hits = {} THEN NoStyle
        ELSE prompt[(CHOOSE i \in hits : \A j \in hits : i <= j) + 1]

\* ------------------------------------------------------------ data URLs
DataUrl(mimeType, data) == <<"data:", mimeType, ";base64,", data>>

\* media types that match image\/\w+ up to the ';'
WordImageTypes == {"image/png", "image/jpeg"}

\* media types that start with image/
ImageTypes == WordImageTypes \cup {"image/svg+xml"}

\* data:image/png,GGGG has no ;base64, and one URL has an empty payload
ReqUrls == {DataUrl("image/png", "AAAA"), DataUrl("image/jpeg", "CCCC"),
            DataUrl("image/svg+xml", "DDDD"), DataUrl("text/plain", "EEEE"),
            <<"data:", "image/png", ",", "GGGG">>, DataUrl("image/png", "")}

\* image.startsWith('data:image/')
StartsWithDataImage(url) ==
    Len(url) >= 2 /\ url[1] = "data:" /\ url[2] \in ImageTypes

\* url.match(/^data:(image\/\w+);base64,(.*)$/)
MatchesDataUrlMutPrefix(url) ==
    Len(url) = 4 /\ url[1] = "data:" /\ url[2] \in WordImageTypes

MatchesDataUrl(url) ==
    Len(url) = 4 /\ url[1] = "data:" /\ url[2] \in WordImageTypes /\ url[3] = ";base64,"

\* const [, mimeType, base64Data] = match
InlineDataOf(url) == [mimeType |-> url[2], data |-> url[4]]

\* ------------------------------------------------------------- requests
ReqImages == UNION {[1..n -> ReqUrls] : n \in 0..MaxReqImages}

\* "" is <<>>; a blank prompt; the prompts of the catalogue styles and of a
\* style that is not in the catalogue
ReqPrompts == {<<>>, <<" ">>} \cup {PrimaryPrompt(st) : st \in StyleSet \cup {"Rustic"}}

\* imagesIsArray is FALSE for a body whose "images" is missing or no array
Requests ==
    {req \in [method : {"POST", "OPTIONS", "GET"}, imagesIsArray : BOOLEAN,
              images : ReqImages, prompt : ReqPrompts] :
        ~req.imagesIsArray => req.images = <<>>}

\* --------------------------------------------------- upstream behaviour
TextPart(t) == [kind |-> "text", text |-> t]

ImagePart(mimeType, data) == [kind |-> "inlineData", mimeType |-> mimeType, data |-> data]

\* what ai.models.generateContent resolves to: the content parts of the
\* first candidate, or no candidate at all
Responses ==
    { [hasCandidate |-> TRUE,
       parts |-> <<TextPart("Here is your remodel"), ImagePart("image/png", "BBBB"),
                   ImagePart("image/jpeg", "FFFF")>>],
      [hasCandidate |-> TRUE, parts |-> <<TextPart("I cannot help with that")>>],
      [hasCandidate |-> TRUE, parts |-> <<ImagePart("image/png", "")>>],
      [hasCandidate |-> FALSE, parts |-> <<>>] }

\* the messages of the errors generateContent rejects with
UpstreamErrors == {<<"got status: 500. {\"error\":{", "\"code\":500", "}}">>,
                   <<"got status: ", "INTERNAL">>,
                   <<"API key not valid">>}

InlineParts(resp) == {i \in 1..Len(resp.parts) : resp.parts[i].kind = "inlineData"}

\* response.text: the text parts joined, undefined when there is none
ResponseText(resp) ==
    LET texts == {i \in 1..Len(resp.parts) : resp.parts[i].kind = "text"}
    IN  IF texts = {} THEN <<>>
        ELSE <<resp.parts[CHOOSE i \in texts : \A j \in texts : i <= j].text>>

NoImagePhrase == "The AI model responded with text instead of an image"

\* ------------------------------------------------ processGeminiResponse
\* Vercel and DEPLOYMENT.md: parts.find(part => part.inlineData)
ProcessGeminiResponseFind(resp) ==
    IF InlineParts(resp) # {}
    THEN LET i == CHOOSE k \in InlineParts(resp) : \A j \in InlineParts(resp) : k <= j
         IN  [ok |-> TRUE, url |-> DataUrl(resp.parts[i].mimeType, resp.parts[i].data)]
    ELSE [ok |-> FALSE,
          message |-> <<NoImagePhrase, ": \"">>
                      \o (IF ResponseText(resp) # <<>> THEN ResponseText(resp)
                          ELSE <<"No text response received.">>)
                      \o <<"\"">>]

\* Netlify: the for loop over parts, the empty-data check, its own message
ProcessGeminiResponseLoop(resp) ==
    IF InlineParts(resp) # {}
    THEN LET i == CHOOSE k \in InlineParts(resp) : \A j \in InlineParts(resp) : k <= j
         IN  IF resp.parts[i].data = ""
             THEN [ok |-> FALSE, message |-> <<"Image data is empty">>]
             ELSE [ok |-> TRUE, url |-> DataUrl(resp.parts[i].mimeType, resp.parts[i].data)]
    ELSE [ok |-> FALSE,
          message |-> <<"The AI model did not generate an image. Response: \"">>
                      \o (IF ResponseText(resp) # <<>> THEN ResponseText(resp)
                          ELSE IF resp.hasCandidate THEN <<"{\"parts\":[]}">>
                          ELSE <<"No valid response received.">>)
                      \o <<"\"">>]

processGeminiResponse(v, resp) ==
    IF v = "netlify" THEN ProcessGeminiResponseLoop(resp)
    ELSE ProcessGeminiResponseFind(resp)

\* ---------------------------------------------------- callGeminiWithRetry
\* errorMessage.includes('"code":500') || errorMessage.includes('INTERNAL')
isInternalErrorMutAll(msg) == TRUE

isInternalError(msg) == Includes(msg, "\"code\":500") \/ Includes(msg, "INTERNAL")

RECURSIVE Pow2(_)
Pow2(n) == IF n = 0 THEN 1 ELSE 2 * Pow2(n - 1)

\* initialDelay * Math.pow(2, attempt - 1)
RetryDelayMutDouble(n) == initialDelay * Pow2(n)

RetryDelay(n) == initialDelay * Pow2(n - 1)

\* if (isInternalError && attempt < maxRetries)
ShouldRetryMutOneMore(msg, n) == isInternalError(msg) /\ n <= maxRetries

ShouldRetry(msg, n) == isInternalError(msg) /\ n < maxRetries

\* ---------------------------------------------------- generateStyleImage
\* errorMessage.includes("The AI model responded with text instead of an image")
isNoImageErrorMutAll(msg) == TRUE

isNoImageError(msg) == Includes(msg, NoImagePhrase)

PartsForMutDropImages(text) ==
    [images |-> IF text = request.prompt
                THEN [i \in 1..Len(request.images) |-> InlineDataOf(request.images[i])]
                ELSE <<>>,
     text |-> text]

\* the request payload: [...imageParts, textPart]
PartsFor(text) ==
    [images |-> [i \in 1..Len(request.images) |-> InlineDataOf(request.images[i])],
     text |-> text]

\* the handler's answers
Respond(status, body) ==
    /\ response' = [status |-> status, body |-> body]
    /\ pc' = "responded"

GenerationFailedMutRethrow(msg) ==
    /\ pc' = "threw"
    /\ UNCHANGED response

GenerationFailed(msg) ==
    Respond(500, [error |-> "Image generation failed", message |-> msg, success |-> FALSE])

\* an upstream call is issued (attempt n of a callGeminiWithRetry)
IssueCall(ph, n, text) ==
    /\ calls' = Append(calls, PartsFor(text))
    /\ phase' = ph
    /\ attempt' = n
    /\ pc' = "calling"
    /\ UNCHANGED response

\* the fallback try block is nested in the catch of the primary try block
\* only: an error of the fallback attempt goes to the inner catch
FallbackAllowedMutAlways(ph) == TRUE

FallbackAllowed(ph) == ph = "primary"

\* the message of the error thrown by the inner catch
BothFailedMessageMutNoDetail(msg) ==
    <<"The AI model failed with both original and fallback prompts. Last error: ">>

BothFailedMessage(msg) ==
    <<"The AI model failed with both original and fallback prompts. Last error: ">> \o msg

\* the catch blocks of generateStyleImage, entered with the message of the
\* error thrown by callGeminiWithRetry or processGeminiResponse
CatchGenerationError(msg) ==
    IF FallbackAllowed(phase)
    THEN IF isNoImageError(msg)
         THEN IF extractStyle(request.prompt) = NoStyle
              THEN GenerationFailed(msg) /\ UNCHANGED <<calls, phase, attempt>>
              ELSE IssueCall("fallback", 1, getFallbackPrompt(extractStyle(request.prompt)))
         ELSE /\ GenerationFailed(<<"The AI model failed to generate an image. Details: ">> \o msg)
              /\ UNCHANGED <<calls, phase, attempt>>
    ELSE /\ GenerationFailed(BothFailedMessage(msg))
         /\ UNCHANGED <<calls, phase, attempt>>

\* ----------------------------------------------------------- the handler
\* From the entry of the handler to its first await: the method checks, the
\* validation of the body, and generateStyleImage up to the first upstream
\* call.
HandleRequest ==
    /\ pc = "received"
    /\ IF request.method = "OPTIONS"
       THEN /\ Respond(200, [x \in {} |-> ""])
            /\ UNCHANGED <<calls, phase, attempt>>
       ELSE IF request.method # "POST"
       THEN /\ Respond(405, [error |-> "Method not allowed",
                             message |-> <<"Only POST requests are supported">>])
            /\ UNCHANGED <<calls, phase, attempt>>
       ELSE IF ~request.imagesIsArray \/ Len(request.images) = 0
       THEN /\ Respond(400, [error |-> "Invalid request",
                             message |-> <<"Missing or invalid \"images\" array in request body">>])
            /\ UNCHANGED <<calls, phase, attempt>>
       ELSE IF Len(request.prompt) = 0
       THEN /\ Respond(400, [error |-> "Invalid request",
                             message |-> <<"Missing or invalid \"prompt\" string in request body">>])
            /\ UNCHANGED <<calls, phase, attempt>>
       ELSE IF \E i \in 1..Len(request.images) : ~StartsWithDataImage(request.images[i])
       THEN /\ Respond(400, [error |-> "Invalid image format",
                             message |-> <<"All images must be valid data URLs starting with \"data:image/\"">>])
            /\ UNCHANGED <<calls, phase, attempt>>
       ELSE IF \E i \in 1..Len(request.images) : ~MatchesDataUrl(request.images[i])
       THEN /\ GenerationFailed(<<"Invalid image data URL format. Expected 'data:image/...;base64,...'">>)
            /\ UNCHANGED <<calls, phase, attempt>>
       ELSE IssueCall("primary", 1, request.prompt)
    /\ UNCHANGED <<variant, request, answers, waits, results, client, svars>>

\* the awaited generateContent resolves: callGeminiWithRetry returns the
\* response, processGeminiResponse interprets it
UpstreamResponds(resp) ==
    /\ pc = "calling"
    /\ answers' = Append(answers, [kind |-> "response", response |-> resp])
    /\ results' = Append(results, [kind |-> "return", phase |-> phase, response |-> resp])
    /\ LET r == processGeminiResponse(variant, resp) IN
         IF r.ok
         THEN /\ Respond(200, [imageUrl |-> r.url, success |-> TRUE,
                               message |-> <<"Image generated successfully">>])
              /\ UNCHANGED <<calls, phase, attempt>>
         ELSE CatchGenerationError(r.message)
    /\ UNCHANGED <<variant, request, waits, client, svars>>

\* the awaited generateContent rejects: the catch of callGeminiWithRetry
UpstreamFails(msg) ==
    /\ pc = "calling"
    /\ answers' = Append(answers, [kind |-> "error", message |-> msg])
    /\ IF ShouldRetry(msg, attempt)
       THEN /\ pc' = "waiting"
            /\ UNCHANGED <<calls, phase, attempt, results, response>>
       ELSE /\ results' = Append(results, [kind |-> "throw", phase |-> phase, message |-> msg])
            /\ CatchGenerationError(msg)
    /\ UNCHANGED <<variant, request, waits, client, svars>>

\* the setTimeout(resolve, delay) of callGeminiWithRetry fires: next attempt
RetryDelayElapsed ==
    /\ pc = "waiting"
    /\ waits' = Append(waits, RetryDelay(attempt))
    /\ IssueCall(phase, attempt + 1, calls[Len(calls)].text)
    /\ UNCHANGED <<variant, request, answers, results, client, svars>>

BackendInit ==
    /\ SessionInit
    /\ variant \in Variants
    /\ request \in Requests
    /\ pc = "received"
    /\ phase = "none"
    /\ attempt = 0
    /\ calls = <<>>
    /\ answers = <<>>
    /\ waits = <<>>
    /\ results = <<>>
    /\ response = [status |-> 0]
    /\ client = [state |-> "idle"]

BackendNext ==
    \/ HandleRequest
    \/ \E resp \in Responses : UpstreamResponds(resp)
    \/ \E msg \in UpstreamErrors : UpstreamFails(msg)
    \/ RetryDelayElapsed

BackendSpec == BackendInit /\ [][BackendNext]_vars

(***************************************************************************)
(* Part 3 (ClientSpec): one invocation of the frontend generateStyleImage  *)
(* (src/services/geminiService.ts) against a backend of part 2: the        *)
(* validation of its arguments, the single fetch of /api/generate, the     *)
(* handling of the answer and the mapping of every failure to the error it *)
(* throws.                                                                 *)
(***************************************************************************)
\* prompt.trim().length === 0 (the empty prompt included)
IsBlank(prompt) == \A i \in 1..Len(prompt) : prompt[i] = " "

\* what fetch rejects with when the proxy cannot be reached (the text differs
\* from browser to browser)
FetchErrors == {<<"Failed to fetch">>,
                <<"NetworkError", " when attempting to fetch resource.">>,
                <<"Load failed">>}

\* statuses of answers that do not come from the handler and carry no JSON
ProxyStatuses == {404, 502}

\* JSON bodies of ok answers that do not come from the handler
ProxyBodies == {[success |-> FALSE, message |-> <<"Service unavailable">>],
                [success |-> TRUE, message |-> <<>>],
                [success |-> TRUE, imageUrl |-> <<>>, message |-> <<"ok">>],
                [success |-> FALSE, imageUrl |-> <<"data:", "image/png", ";base64,", "BBBB">>,
                 message |-> <<>>]}

\* what answers in place of the handler: an error page, an ok page that is
\* no JSON (an index.html fallback), an ok JSON body of another service
ProxyReplies ==
    {[status |-> st] : st \in ProxyStatuses \cup {200}}
    \cup {[status |-> 200, body |-> b] : b \in ProxyBodies}

\* `Server responded with status: ${response.status}`
StatusMessage(status) ==
    IF status \div 100 = 5
    THEN <<"Server responded with status: 5", "xx">>
    ELSE <<"Server responded with status: ", "4xx">>

\* the catch of generateStyleImage: the error it throws for a caught message
FriendlyError(msg) ==
    IF Includes(msg, "IMAGE_GENERATION_NOT_SUPPORTED")
    THEN <<"Technical Issue: This application is configured to use Google Gemini API, which cannot generate images.">>
    ELSE IF Includes(msg, "Failed to fetch") \/ Includes(msg, "NetworkError")
    THEN <<"Network error: Unable to connect to the image generation service. Please check your internet connection and try again.">>
    ELSE IF Includes(msg, "Server responded with status: 5")
    THEN <<"Server error: The image generation service is temporarily unavailable. Please try again in a few minutes.">>
    ELSE <<"Failed to generate image: ">> \o msg

\* await response.json().catch(() => ({}))
ErrorDataOf(resp) ==
    IF "body" \in DOMAIN resp THEN resp.body ELSE [x \in {} |-> <<>>]

\* errorData.message || errorData.error || `Server responded with status: ...`
ErrorDataMessage(resp) ==
    LET errorData == ErrorDataOf(resp) IN
    IF "message" \in DOMAIN errorData /\ errorData.message # <<>> THEN errorData.message
    ELSE IF "error" \in DOMAIN errorData /\ errorData.error # "" THEN <<errorData.error>>
    ELSE StatusMessage(resp.status)

\* response.ok
IsOk(resp) == resp.status \in 200..299

IsValidDataMutUrlOnly(data) ==
    "imageUrl" \in DOMAIN data /\ data.imageUrl # <<>>

\* data.success && data.imageUrl
IsValidData(data) ==
    /\ "success" \in DOMAIN data /\ data.success = TRUE
    /\ "imageUrl" \in DOMAIN data /\ data.imageUrl # <<>>

\* the promise of generateStyleImage settles
Resolve(url) == [ok |-> TRUE, url |-> url]

Reject(msg) == [ok |-> FALSE, error |-> msg]

ClientSettle(outcome) ==
    client' = [client EXCEPT !.state = "settled", !.outcome = outcome]

\* the message of the error thrown inside the try block for an answer, or
\* <<>> when none is thrown
AnswerError(resp) ==
    IF ~IsOk(resp)
    THEN <<"Image generation failed: ">> \o ErrorDataMessage(resp)
    ELSE IF "body" \notin DOMAIN resp
    THEN <<"Unexpected token '<', \"<!doctype \"... is not valid JSON">>
    ELSE IF ~IsValidData(ErrorDataOf(resp))
    THEN IF "message" \in DOMAIN ErrorDataOf(resp) /\ ErrorDataOf(resp).message # <<>>
         THEN ErrorDataOf(resp).message
         ELSE <<"Backend API returned invalid response format">>
    ELSE <<>>

\* generateStyleImage from its entry to the await of fetch
ClientGenerate ==
    /\ client.state = "called"
    /\ IF Len(client.images) = 0
       THEN /\ ClientSettle(Reject(FriendlyError(<<"At least one image is required for remodeling">>)))
            /\ UNCHANGED <<request, pc>>
       ELSE IF IsBlank(client.prompt)
       THEN /\ ClientSettle(Reject(FriendlyError(<<"A prompt is required for image generation">>)))
            /\ UNCHANGED <<request, pc>>
       ELSE IF \E i \in 1..Len(client.images) : ~StartsWithDataImage(client.images[i])
       THEN /\ ClientSettle(Reject(FriendlyError(<<"All images must be valid data URLs">>)))
            /\ UNCHANGED <<request, pc>>
       ELSE /\ client' = [client EXCEPT !.state = "fetching", !.fetches = @ + 1]
            /\ request' = [method |-> "POST", imagesIsArray |-> TRUE,
                           images |-> client.images, prompt |-> client.prompt]
            /\ pc' = "received"
    /\ UNCHANGED <<variant, phase, attempt, calls, answers, waits, results, response, svars>>

\* fetch rejects: the request did not reach the handler
FetchRejects(msg) ==
    /\ client.state = "fetching"
    /\ pc = "received"
    /\ pc' = "unreached"
    /\ ClientSettle(Reject(FriendlyError(msg)))
    /\ UNCHANGED <<variant, request, phase, attempt, calls, answers, waits, results, response, svars>>

\* the hosting platform answers in place of the handler
ProxyAnswers(reply) ==
    /\ client.state = "fetching"
    /\ pc = "received"
    /\ pc' = "responded"
    /\ response' = reply
    /\ UNCHANGED <<variant, request, phase, attempt, calls, answers, waits, results, client, svars>>

\* fetch resolves: the code after the await
ClientReceives ==
    /\ client.state = "fetching"
    /\ pc = "responded"
    /\ IF AnswerError(response) # <<>>
       THEN ClientSettle(Reject(FriendlyError(AnswerError(response))))
       ELSE ClientSettle(Resolve(response.body.imageUrl))
    /\ UNCHANGED <<variant, request, pc, phase, attempt, calls, answers, waits, results, response, svars>>

\* the arguments of one invocation
ClientCalls ==
    [state : {"called"}, images : ReqImages, prompt : ReqPrompts, fetches : {0},
     outcome : {[ok |-> FALSE, error |-> <<>>]}]

ClientInit ==
    /\ SessionInit
    /\ variant \in Variants
    /\ client \in ClientCalls
    /\ request = [method |-> "none", imagesIsArray |-> FALSE, images |-> <<>>, prompt |-> <<>>]
    /\ pc = "idle"
    /\ phase = "none"
    /\ attempt = 0
    /\ calls = <<>>
    /\ answers = <<>>
    /\ waits = <<>>
    /\ results = <<>>
    /\ response = [status |-> 0]

ClientNext ==
    \/ ClientGenerate
    \/ \E msg \in FetchErrors : FetchRejects(msg)
    \/ \E reply \in ProxyReplies : ProxyAnswers(reply)
    \/ ClientReceives
    \/ HandleRequest
    \/ \E resp \in Responses : UpstreamResponds(resp)
    \/ \E msg \in UpstreamErrors : UpstreamFails(msg)
    \/ RetryDelayElapsed

ClientSpec == ClientInit /\ [][ClientNext]_vars

\* ------------------------------------------------- session: shared notions
Terminal == {"done", "error"}

\* styles still in the work queue of a running round
Queued(r) ==
    IF Running(r)
    THEN {rounds[r].stylesQueue[i] : i \in 1..Len(rounds[r].stylesQueue)}
    ELSE {}

\* this step runs the code after await Promise.all(workers) of round r
Settles(r) == Running(r) /\ ~Running(r)'

\* this step is the completion of a call for style s
Completes(s) == InFlight(s)' < InFlight(s)

\* the entries of all styles other than s are the same before and after
OthersUnchanged(s) ==
    \A t \in StyleSet \ {s} :
        /\ (t \in DOMAIN generatedImages) <=> (t \in DOMAIN generatedImages')
        /\ t \in DOMAIN generatedImages => generatedImages'[t] = generatedImages[t]

\* ---------------------------------------------------------------------- C1
\* C1 as stated: in every reachable state the number of generateStyleImage
\* calls issued (by round workers or by handleRegenerateStyle) and not yet
\* completed is at most the concurrency limit 2.
C1_AtMostKInFlight == InFlightTotal <= concurrencyLimit

\* C1 amended: the calls issued by the workers of one round and not yet
\* completed are at most 2; calls of handleRegenerateStyle are not counted
\* against the limit.
C1_RoundAtMostKInFlight ==
    \A r \in RoundIds : RoundInFlightAll(r) <= concurrencyLimit

\* a round at its limit while a regeneration is in flight as well
C1_Witness ==
    \E r \in RoundIds :
        /\ RoundInFlightAll(r) = concurrencyLimit
        /\ PendingRegens > 0
        /\ InFlightTotal > concurrencyLimit

\* ---------------------------------------------------------------------- C2
\* C2 as stated: at the moment a round settles every catalogue style has
\* status 'done' or 'error', whatever interleaves with the round.
C2_SettledAllTerminal ==
    [][\A r \in RoundIds : Settles(r) =>
          \A s \in StyleSet : StatusOf(generatedImages', s) \in Terminal]_vars

\* C2 amended: at the moment a round settles its queue is empty and none of
\* its calls is in flight; a style is 'pending' then only if a call for it
\* is still in flight (a regeneration) or it waits in another round; and if
\* appState was still 'generating' every other style is 'done' or 'error'.
C2_SettledNonePendingByRound ==
    [][\A r \in RoundIds : Settles(r) =>
          /\ rounds[r].stylesQueue = <<>>
          /\ \A s \in StyleSet :
                /\ StatusOf(generatedImages', s) = "pending" =>
                      \/ InFlight(s)' > 0
                      \/ \E q \in RoundIds : s \in Queued(q)'
                /\ appState = "generating" =>
                      StatusOf(generatedImages', s) \in Terminal \cup {"pending"}]_vars

\* a settled round with one style pending because of a regeneration
C2_Witness ==
    /\ appState = "results-shown"
    /\ ~isLoading
    /\ \A r \in RoundIds : ~Running(r)
    /\ DOMAIN generatedImages = StyleSet
    /\ \E s \in StyleSet :
          /\ generatedImages[s].status = "pending"
          /\ regens[s] > 0
          /\ \A t \in StyleSet \ {s} : generatedImages[t].status \in Terminal

\* ---------------------------------------------------------------------- C3
\* C3: when handleGenerateClick starts a round the session map becomes
\* exactly: every catalogue style 'pending', no url, no error; the uploaded
\* image set is non-empty; and in the first state any other step can see,
\* the styles the workers have dequeued are pending like all the others.
C3_RoundStartAllPending ==
    [][(appState' = "generating" /\ appState # "generating") =>
          /\ uploadedImages # <<>>
          /\ generatedImages' = [s \in StyleSet |-> PendingImage]
          /\ \E r \in RoundIds :
                /\ ~Running(r) /\ Running(r)'
                /\ rounds'[r].images = uploadedImages
                /\ Cardinality(rounds'[r].inFlight) + Len(rounds'[r].stylesQueue)
                      = Len(STYLES)]_vars

\* a round has just started while a call of an earlier session is in flight
C3_Witness ==
    /\ appState = "generating"
    /\ generatedImages = [s \in StyleSet |-> PendingImage]
    /\ \E r \in RoundIds :
          /\ Running(r)
          /\ rounds[r].inFlight = {STYLES[1], STYLES[2]}
          /\ Len(rounds[r].stylesQueue) = Len(STYLES) - concurrencyLimit
    /\ PendingRegens > 0

\* ---------------------------------------------------------------------- C4
\* C4 as stated (its conclusion): at most one call per style is in flight
\* at any time.
C4_AtMostOneTaskPerStyle == \A s \in StyleSet : InFlight(s) <= 1

\* C4 amended: handleRegenerateStyle(S) while S is 'pending' changes nothing
\* and issues no call (no step taken while S is pending adds a regeneration
\* call for S).
C4_RegeneratePendingNoOp ==
    [][\A s \in StyleSet : StatusOf(generatedImages, s) = "pending" =>
          /\ HandleRegenerateStyle(s) => UNCHANGED vars
          /\ regens'[s] <= regens[s]]_vars

\* the cards are shown, S is pending and its call is in flight
C4_Witness ==
    /\ appState \in {"generating", "results-shown"}
    /\ uploadedImages # <<>>
    /\ \E s \in StyleSet :
          /\ StatusOf(generatedImages, s) = "pending"
          /\ regens[s] = 1
          /\ ENABLED HandleRegenerateStyle(s)

\* ---------------------------------------------------------------------- C5
\* C5: a style's status changes only pending->done, pending->error,
\* done->pending, error->pending; it never goes from one terminal outcome
\* directly to another.  (A style without an entry is shown as pending and
\* counts as pending here.)
ShownStatus(images, s) ==
    IF StatusOf(images, s) = "undefined" THEN "pending" ELSE StatusOf(images, s)

C5_StatusStateMachine ==
    [][\A s \in StyleSet :
          LET a == ShownStatus(generatedImages, s)
              b == ShownStatus(generatedImages', s)
          IN  \/ a = b
              \/ a = "pending" /\ b \in Terminal
              \/ a \in Terminal /\ b = "pending"]_vars

\* ---------------------------------------------------------------------- C6
\* C6: the completion of a call for style S writes S's outcome and leaves
\* the entry of every other style as it was, whichever handler issued the
\* call and whatever completed just before.
C6_NoLostWrites ==
    [][\A s \in StyleSet : Completes(s) =>
          /\ StatusOf(generatedImages', s) \in Terminal
          /\ OthersUnchanged(s)]_vars

\* the outcomes of a regeneration and of round workers stand side by side
C6_Witness ==
    /\ \E r \in RoundIds : Running(r)
    /\ PendingRegens = 0
    /\ \E s, t \in StyleSet :
          /\ StatusOf(generatedImages, s) = "done"
          /\ StatusOf(generatedImages, t) = "error"
    /\ Cardinality({s \in StyleSet : StatusOf(generatedImages, s) \in Terminal}) >= 3

\* ---------------------------------------------------------------------- C7
\* C7: when a round worker's call for S fails, S's entry becomes
\* {status:'error', error: message} and nothing else in the map changes;
\* the worker takes the next style of the queue (or exits when it is
\* empty); the sibling worker's call stays in flight and no regeneration
\* call is touched.
C7_FailureContained ==
    [][\A r \in RoundIds, s \in StyleSet :
          (/\ Running(r)
           /\ s \in rounds[r].inFlight
           /\ ~Running(r)' \/ s \notin rounds'[r].inFlight
           /\ StatusOf(generatedImages', s) # "done") =>
              /\ \E m \in ErrorMessages : generatedImages'[s] = ErrorImage(m)
              /\ OthersUnchanged(s)
              /\ regens' = regens
              /\ IF Len(rounds[r].stylesQueue) > 0
                 THEN /\ Running(r)'
                      /\ rounds'[r].stylesQueue = Tail(rounds[r].stylesQueue)
                      /\ rounds'[r].inFlight =
                            (rounds[r].inFlight \ {s}) \cup {Head(rounds[r].stylesQueue)}
                 ELSE \/ ~Running(r)' /\ rounds[r].inFlight = {s}
                      \/ Running(r)' /\ rounds'[r].inFlight = rounds[r].inFlight \ {s}]_vars

\* Modern failed, its worker went on to Industrial, Scandinavian is untouched
C7_Witness ==
    /\ StatusOf(generatedImages, STYLES[1]) = "error"
    /\ StatusOf(generatedImages, STYLES[2]) = "pending"
    /\ \E r \in RoundIds :
          /\ Running(r)
          /\ rounds[r].inFlight = {STYLES[2], STYLES[3]}

\* ---------------------------------------------------------------------- C8
\* C8: if every call eventually resolves or rejects, a style that is
\* 'pending' eventually is 'done' or 'error'.
C8_PendingLeadsToTerminal ==
    \A s \in StyleSet :
        (StatusOf(generatedImages, s) = "pending")
            ~> (StatusOf(generatedImages, s) \in Terminal)

\* every style has reached a terminal status and nothing is in flight
C8_Witness ==
    /\ \A s \in StyleSet : StatusOf(generatedImages, s) \in Terminal
    /\ InFlightTotal = 0

\* ---------------------------------------------------------------------- C9
\* C9: setIsLoading(false) and setAppState('results-shown') run only in the
\* step in which the last call of a round completes: that round's queue is
\* empty, the completing call is its only one in flight and its outcome is
\* written in the same step.
C9_SettleOnlyWhenDrained ==
    [][/\ \A r \in RoundIds : Settles(r) =>
             /\ rounds[r].stylesQueue = <<>>
             /\ rounds[r].exited = concurrencyLimit - 1
             /\ \E s \in StyleSet :
                   /\ rounds[r].inFlight = {s}
                   /\ StatusOf(generatedImages', s) \in Terminal
             /\ appState' = "results-shown"
             /\ ~isLoading'
       /\ ((isLoading /\ ~isLoading')
              \/ (appState' = "results-shown" /\ appState # "results-shown")) =>
             \E r \in RoundIds : Settles(r)]_vars

\* a round has completed: results shown, not loading, no round running
C9_Witness ==
    /\ appState = "results-shown"
    /\ ~isLoading
    /\ \A r \in RoundIds : ~Running(r)
    /\ StatusOf(generatedImages, STYLES[Len(STYLES)]) \in Terminal

\* --------------------------------------------------------------------- C10
\* the instruction texts sent upstream so far
TextsSent == {calls[i].text : i \in 1..Len(calls)}

IsImageAnswer(a) == a.kind = "response" /\ InlineParts(a.response) # {}

IsNoImageAnswer(a) == a.kind = "response" /\ InlineParts(a.response) = {}

\* the first inline-image part of an answer, as a data URL
ImageOf(a) ==
    LET i == CHOOSE k \in InlineParts(a.response) : \A j \in InlineParts(a.response) : k <= j
    IN  DataUrl(a.response.parts[i].mimeType, a.response.parts[i].data)

\* the claim for one backend variant
FallbackAfterNoImage(v) ==
    \A st \in StyleSet :
        (/\ variant = v
         /\ pc = "responded"
         /\ request.prompt = PrimaryPrompt(st)
         /\ Len(answers) >= 1
         /\ IsNoImageAnswer(answers[1])) =>
            /\ Len(calls) >= 2
            /\ calls[1].text = PrimaryPrompt(st)
            /\ calls[2].text = getFallbackPrompt(st)
            /\ TextsSent = {PrimaryPrompt(st), getFallbackPrompt(st)}
            /\ IsImageAnswer(answers[Len(answers)]) =>
                  /\ response.status = 200
                  /\ response.body.imageUrl = ImageOf(answers[Len(answers)])

\* C10: in every backend variant, when the upstream answers the primary
\* prompt of a catalogue style with a response without inline image and the
\* fallback prompt with an image, generateStyleImage returns that image and
\* exactly two distinct texts were sent: the primary prompt, then
\* getFallbackPrompt(style).
C10_FallbackAfterNoImage == \A v \in Variants : FallbackAfterNoImage(v)

\* ------------------------------------------------ backend: shared notions
\* an answer of the upstream that callGeminiWithRetry treats as transient
Transient(a) == a.kind = "error" /\ isInternalError(a.message)

\* upstream call i is the first attempt of an invocation of
\* callGeminiWithRetry: the first call, or the call after the answer that
\* ended the primary invocation
StartsInvocation(i) ==
    /\ i \in 1..Len(calls)
    /\ i = 1 \/ answers[i - 1].kind = "response"

\* the number of rejected upstream calls among the first k
ErrorsUpTo(k) == Cardinality({j \in 1..k : answers[j].kind = "error"})

\* --------------------------------------------------------------------- C11
\* C11: when the upstream fails an invocation of callGeminiWithRetry with a
\* transient error on attempts 1 and 2 and answers attempt 3, the invocation
\* returns that answer as it is, it has issued exactly 3 calls with the same
\* payload, and it has waited 1000 before the second and 2000 before the
\* third.
C11_RetryTwiceThenSuccess ==
    \A i \in 1..Len(answers) :
        (/\ StartsInvocation(i)
         /\ i + 2 <= Len(answers)
         /\ Transient(answers[i])
         /\ Transient(answers[i + 1])
         /\ answers[i + 2].kind = "response") =>
            /\ calls[i + 1] = calls[i]
            /\ calls[i + 2] = calls[i]
            /\ Len(calls) > i + 2 => calls[i + 3].text # calls[i].text
            /\ waits[ErrorsUpTo(i)] = 1000
            /\ waits[ErrorsUpTo(i + 1)] = 2000
            /\ Len(waits) >= ErrorsUpTo(i + 1)
            /\ \E k \in 1..Len(results) :
                  /\ results[k].kind = "return"
                  /\ results[k].response = answers[i + 2].response
                  /\ k = Cardinality({j \in 1..(i + 2) : answers[j].kind = "response"})

\* two transient failures, then an image: three calls, the image is answered
C11_Witness ==
    /\ pc = "responded"
    /\ Len(calls) = 3
    /\ Len(answers) = 3
    /\ Transient(answers[1])
    /\ Transient(answers[2])
    /\ answers[3].kind = "response"
    /\ waits = <<1000, 2000>>
    /\ response.status = 200

\* --------------------------------------------------------------------- C12
\* the answer the upstream has given last
LastAnswer == answers[Len(answers)]

\* this step ends an invocation of callGeminiWithRetry with a thrown error
Throws == Len(results') > Len(results) /\ results'[Len(results')].kind = "throw"

\* C12: an invocation of callGeminiWithRetry issues between 1 and 3 upstream
\* calls; it waits only after a transient failure of attempt n < 3, and then
\* exactly 1000 * 2^(n-1); a transient failure is thrown to the caller only
\* when it is the failure of the third attempt, without another wait, the
\* waits of that invocation having been 1000 and 2000.
C12_RetryBudgetAndBackoff ==
    [][/\ calls' # calls =>
             /\ Len(calls') = Len(calls) + 1
             /\ attempt' \in 1..3
       /\ (pc' = "waiting" /\ pc # "waiting") =>
             /\ Transient(LastAnswer')
             /\ attempt \in 1..2
             /\ calls' = calls
       /\ waits' # waits =>
             /\ pc = "waiting"
             /\ Transient(LastAnswer)
             /\ attempt \in 1..2
             /\ waits' = Append(waits, 1000 * Pow2(attempt - 1))
             /\ attempt' = attempt + 1
             /\ calls' = Append(calls, calls[Len(calls)])
       /\ (Throws /\ isInternalError(results'[Len(results')].message)) =>
             /\ attempt = 3
             /\ pc' = "responded"
             /\ waits' = waits
             /\ calls' = calls
             /\ Len(waits) >= 2
             /\ SubSeq(waits, Len(waits) - 1, Len(waits)) = <<1000, 2000>>]_vars

\* three transient failures of the primary invocation: the third is thrown
C12_Witness ==
    /\ pc = "responded"
    /\ Len(calls) = 3
    /\ \A i \in 1..3 : Transient(answers[i])
    /\ waits = <<1000, 2000>>
    /\ Len(results) = 1
    /\ results[1].kind = "throw"
    /\ response.status = 500

\* --------------------------------------------------------------------- C13
\* an error message with neither '"code":500' nor 'INTERNAL' in it
NonTransientMessage(msg) ==
    ~Includes(msg, "\"code\":500") /\ ~Includes(msg, "INTERNAL")

\* C13: when an upstream call fails with a non-transient error, on whichever
\* attempt, callGeminiWithRetry throws that very error in the same step: it
\* does not wait and issues no further call in that invocation.
C13_NonTransientPropagates ==
    [][(/\ Len(answers') = Len(answers) + 1
        /\ LastAnswer'.kind = "error"
        /\ NonTransientMessage(LastAnswer'.message)) =>
           /\ results' = Append(results, [kind |-> "throw", phase |-> phase,
                                          message |-> LastAnswer'.message])
           /\ pc' # "waiting"
           /\ waits' = waits
           /\ calls' # calls => phase' # phase]_vars

\* a transient failure, then a non-transient one on the second attempt
C13_Witness ==
    /\ pc = "responded"
    /\ Len(answers) = 2
    /\ Transient(answers[1])
    /\ answers[2].kind = "error"
    /\ NonTransientMessage(answers[2].message)
    /\ Len(calls) = 2
    /\ waits = <<1000>>
    /\ results = <<[kind |-> "throw", phase |-> "primary", message |-> answers[2].message]>>

\* --------------------------------------------------------------------- C14
\* msg has the tokens of part, in order and without a gap
Contains(msg, part) ==
    \E k \in 0..(Len(msg) - Len(part)) : SubSeq(msg, k + 1, k + Len(part)) = part

\* the primary invocation of callGeminiWithRetry threw an upstream error
PrimaryThrew == Len(results) >= 1 /\ results[1].kind = "throw"

Interpreted == {i \in 1..Len(answers) : answers[i].kind = "response"}

\* C15: one invocation of the backend generateStyleImage runs at most two
\* call-then-interpret sequences, the primary and at most one fallback: it
\* issues at most 6 upstream calls with at most 2 distinct texts (the
\* request's prompt and the fallback prompt of its style), and once the
\* fallback's answer has been interpreted, image or not, it has finished.
C15_AtMostOneFallback ==
    /\ Len(results) <= 2
    /\ Cardinality(Interpreted) <= 2
    /\ Len(calls) <= 6
    /\ Cardinality(TextsSent) <= 2
    /\ TextsSent \subseteq {request.prompt, getFallbackPrompt(extractStyle(request.prompt))}
    /\ \A i \in 1..Len(calls) :
          calls[i].text # request.prompt =>
              \A j \in i..Len(calls) : calls[j].text = calls[i].text
    /\ Cardinality(Interpreted) = 2 => pc = "responded"

\* six calls: three for the primary prompt, three for the fallback prompt,
\* and the fallback's answer has no image either
C15_Witness ==
    /\ pc = "responded"
    /\ Len(calls) = 6
    /\ Cardinality(TextsSent) = 2
    /\ IsNoImageAnswer(answers[3])
    /\ IsNoImageAnswer(answers[6])
    /\ response.status = 500

\* --------------------------------------------------------------------- C16
\* the message of the error that ended the latest attempt: the upstream
\* error thrown by callGeminiWithRetry, or the error processGeminiResponse
\* threw for the answer
AttemptError ==
    IF LastAnswer.kind = "error" THEN LastAnswer.message
    ELSE processGeminiResponse(variant, LastAnswer.response).message

\* the fallback prompt has been sent
FallbackSent == \E i \in 1..Len(calls) : calls[i].text # request.prompt

\* C16: when the primary attempt yielded no image and the fallback attempt
\* has failed too (no image again, or an upstream error after its retries),
\* generateStyleImage fails with one error whose message says that both the
\* original and the fallback prompt failed and ends with the fallback
\* attempt's own message.
C16_BothFailedMessage ==
    (/\ FallbackSent
     /\ pc = "responded"
     /\ response.status # 200) =>
        /\ \E i \in 1..Len(answers) : IsNoImageAnswer(answers[i]) /\ calls[i].text = request.prompt
        /\ response.status = 500
        /\ response.body.error = "Image generation failed"
        /\ response.body.message =
              <<"The AI model failed with both original and fallback prompts. Last error: ">>
                  \o AttemptError
        /\ AttemptError # <<>>

\* no image for the primary prompt, then an upstream error for the fallback
C16_Witness ==
    /\ pc = "responded"
    /\ response.status = 500
    /\ Len(calls) = 2
    /\ IsNoImageAnswer(answers[1])
    /\ answers[2].kind = "error"
    /\ FallbackSent
    /\ Contains(response.body.message, answers[2].message)

\* --------------------------------------------------------------------- C17
\* the claim for one backend variant
NoStyleRethrowsOriginal(v) ==
    (/\ variant = v
     /\ pc = "responded"
     /\ Len(answers) >= 1
     /\ IsNoImageAnswer(answers[1])
     /\ extractStyle(request.prompt) = NoStyle) =>
        /\ Len(calls) = 1
        /\ TextsSent = {request.prompt}
        /\ response.status = 500
        /\ response.body.message = processGeminiResponse(v, answers[1].response).message

\* C17: when the upstream answers the primary prompt without an image and
\* extractStyle finds no catalogue style in the prompt, generateStyleImage
\* issues no fallback call and fails with the very error processGeminiResponse
\* threw: its message is passed on unchanged, without the both-prompts-failed
\* wrapper or any other.
C17_NoStyleRethrowsOriginal == \A v \in Variants : NoStyleRethrowsOriginal(v)

\* --------------------------------------------------------------------- C18
\* the claim for one answer of the upstream, interpreted by variant v
FirstInlinePartWins(v, a) ==
    LET r == processGeminiResponse(v, a.response) IN
    IF InlineParts(a.response) # {}
    THEN r.ok /\ r.url = ImageOf(a)
    ELSE /\ ~r.ok
         /\ Len(r.message) = 4
         /\ r.message[1] = NoImagePhrase
         /\ r.message[3] = (IF ResponseText(a.response) # <<>>
                            THEN ResponseText(a.response)[1]
                            ELSE "No text response received.")

\* C18: in every backend variant processGeminiResponse returns the data URL
\* built from the first content part with inline data, whatever follows it;
\* it fails only when no part has inline data, and then with the no-image
\* error that carries the response's text, or a fixed placeholder when the
\* response has no text; a 200 answer of the handler carries that data URL.
C18_FirstInlinePartWins ==
    /\ \A i \in Interpreted : FirstInlinePartWins(variant, answers[i])
    /\ (pc = "responded" /\ response.status = 200 /\ request.method = "POST") =>
          /\ IsImageAnswer(LastAnswer)
          /\ response.body.imageUrl = ImageOf(LastAnswer)

\* --------------------------------------------------------------------- C19
\* url has the shape data:image/<type>;base64,<payload>
HasDataUrlShape(url) ==
    /\ Len(url) = 4
    /\ url[1] = "data:"
    /\ url[2] \in ImageTypes
    /\ url[3] = ";base64,"

\* C19: when one of the image data URLs given to the frontend
\* generateStyleImage does not have the shape data:image/<type>;base64,<payload>,
\* the call is rejected before any network call: no request is sent to
\* /api/generate, the backend issues no upstream call, and the call ends
\* with an error.
C19_MalformedUrlNoNetwork ==
    (/\ client.state # "idle"
     /\ \E i \in 1..Len(client.images) : ~HasDataUrlShape(client.images[i])) =>
        /\ client.fetches = 0
        /\ pc = "idle"
        /\ calls = <<>>
        /\ client.state = "settled" => ~client.outcome.ok

\* -------------------------------------------------------------------- C20
\* C20: a POST whose image set is empty or whose prompt is empty or only
\* white space is answered by the backend handler with an error, without
\* any upstream call.
C20_EmptyInputNoUpstreamCall ==
    (/\ request.method = "POST"
     /\ pc # "received"
     /\ Len(request.images) = 0 \/ IsBlank(request.prompt)) =>
        /\ calls = <<>>
        /\ pc = "responded"
        /\ response.status \in {400, 500}

\* --------------------------------------------------------------------- C21
\* the body has exactly the keys of a success answer / of a failure answer
SuccessShape(body) ==
    /\ DOMAIN body = {"success", "imageUrl", "message"}
    /\ body.success = TRUE

FailureShape(body) ==
    /\ DOMAIN body = {"error", "message", "success"}
    /\ body.success = FALSE

\* C21: every answer of the handler to a request other than the preflight
\* is either 200 with {success: true, imageUrl, message}, given only when
\* generateStyleImage returned an image data URL, or a non-200 status with
\* {error, message, success: false}: validation failures, wrong methods and
\* generation failures all carry success: false.
C21_ResponseShapes ==
    (pc = "responded" /\ request.method # "OPTIONS") =>
        \/ /\ response.status = 200
           /\ SuccessShape(response.body)
           /\ answers # <<>>
           /\ IsImageAnswer(LastAnswer)
           /\ response.body.imageUrl = ImageOf(LastAnswer)
        \/ /\ response.status # 200
           /\ FailureShape(response.body)

\* --------------------------------------------------------------------- C22
\* the text of the error thrown for a proxy that cannot be reached
ConnectionMessage ==
    <<"Network error: Unable to connect to the image generation service. Please check your internet connection and try again.">>

\* C22: one invocation of the frontend generateStyleImage sends at most one
\* request to /api/generate: after a rejected fetch or a non-200 answer it
\* settles without another request; and when the fetch is rejected (the
\* proxy was not reached) it throws the error with the
\* check-your-internet-connection text.
C22_SingleRequestAndConnectionError ==
    /\ client.fetches <= 1
    /\ (pc = "responded" /\ response.status # 200 /\ client.state = "settled") =>
          /\ client.fetches = 1
          /\ ~client.outcome.ok
    /\ pc = "unreached" =>
          /\ client.state = "settled"
          /\ client.fetches = 1
          /\ calls = <<>>
          /\ client.outcome = Reject(ConnectionMessage)

\* --------------------------------------------------------------------- C23
\* the answer of an upstream that returns the inline-data part it was sent
EchoOf(part) ==
    [hasCandidate |-> TRUE, parts |-> <<ImagePart(part.mimeType, part.data)>>]

ResetStep == appState' = "idle" /\ appState # "idle"

UploadStep ==
    /\ PendingReads' < PendingReads
    /\ \/ uploadedImages' # uploadedImages
       \/ appState' # appState
       \/ generatedImages' # generatedImages

RoundStartStep == \E r \in RoundIds : ~Running(r) /\ Running(r)'

\* C24: handleReset empties the uploaded image set and the session map and
\* sets appState to 'idle'; a completed upload replaces the session map by
\* the empty map; and a session map that is empty gets entries only when a
\* generation round starts.
C24_ClearedUntilNextRound ==
    [][/\ ResetStep =>
             /\ uploadedImages' = <<>>
             /\ generatedImages' = EmptyImages
       /\ UploadStep => generatedImages' = EmptyImages
       /\ (generatedImages = EmptyImages /\ generatedImages' # EmptyImages) =>
             /\ RoundStartStep
             /\ generatedImages' = [s \in StyleSet |-> PendingImage]]_vars

\* --------------------------------------------------------------------- C25
\* the images read by the upload that completes in this step
NewlyRead ==
    CHOOSE b \in Batches : reads'[b] < reads[b]

C26_FullCatalogueWhileShown ==
    appState \in {"generating", "results-shown"} =>
        DOMAIN generatedImages = StyleSet

(***************************************************************************)
(* Part 4 (TaskSpec): one per-style task.  The handler has built the       *)
(* prompt of a style and calls generateStyleImage(uploadedImages, prompt)  *)
(* (part 3) against a backend (part 2); when the promise settles the       *)
(* outcome is written to the session map.  The session map at the time of  *)
(* the call is any of the maps the interleavings of part 1 can leave.      *)
(***************************************************************************)
TaskStyles == {"Modern", "Minimalist"}

TaskImages == {<<DataUrl("image/png", "AAAA")>>,
               <<DataUrl("image/png", "AAAA"), DataUrl("image/jpeg", "CCCC")>>}

\* session maps at the call: cleared; all 'pending' (round start); cleared
\* with a stale 'done' for the style; the style failed, the others done
PriorMaps(style) ==
    {EmptyImages,
     InitialImages(EmptyImages),
     SpreadSet(EmptyImages, style, DoneImage(<<"data:", "image/png", ";base64,", "ZZZZ">>)),
     [s \in StyleSet |-> IF s = style THEN ErrorImage(<<"Failed to generate image: ", "old">>)
                         ELSE DoneImage(<<"data:", "image/png", ";base64,", "ZZZZ">>)]}

\* the prompt template of processStyle and of handleRegenerateStyle, and the
\* call generateStyleImage(uploadedImages, prompt)
TaskInit ==
    /\ variant \in Variants
    /\ \E style \in TaskStyles :
          /\ uploadedImages \in TaskImages
          /\ generatedImages \in PriorMaps(style)
          /\ regens = [s \in StyleSet |-> IF s = style THEN 1 ELSE 0]
          /\ client = [state |-> "called", images |-> uploadedImages,
                       prompt |-> PrimaryPrompt(style), fetches |-> 0,
                       outcome |-> [ok |-> FALSE, error |-> <<>>]]
    /\ isLoading = FALSE
    /\ appState = "results-shown"
    /\ reads = [b \in Batches |-> 0]
    /\ rounds = [r \in RoundIds |-> NoRound]
    /\ request = [method |-> "none", imagesIsArray |-> FALSE, images |-> <<>>, prompt |-> <<>>]
    /\ pc = "idle"
    /\ phase = "none"
    /\ attempt = 0
    /\ calls = <<>>
    /\ answers = <<>>
    /\ waits = <<>>
    /\ results = <<>>
    /\ response = [status |-> 0]

\* the style whose task is running
TaskStyle == CHOOSE s \in StyleSet : client.prompt = PrimaryPrompt(s)

\* the await of generateStyleImage returns or throws: the outcome is written
TaskCompletes ==
    /\ client.state = "settled"
    /\ CompleteRegenerate(TaskStyle, client.outcome)

TaskNext ==
    \/ ClientNext
    \/ TaskCompletes

TaskSpec == TaskInit /\ [][TaskNext]_vars

\* The handler's run as a function of its inputs alone: the state of
\* generateStyleImage (backend) after the upstream behaviours ans, for a
\* valid request with the given prompt.  texts are the texts of the upstream
\* calls issued (the one after a retry delay included), resp the answer of
\* the handler ([status |-> 0] while it is still running).
ReplayFail(st, msg) ==
    [st EXCEPT !.resp = [status |-> 500,
                         body |-> [error |-> "Image generation failed",
                                   message |-> msg, success |-> FALSE]]]

ReplayCatch(prompt, st, msg) ==
    IF st.phase = "primary"
    THEN IF isNoImageError(msg)
         THEN IF extractStyle(prompt) = NoStyle
              THEN ReplayFail(st, msg)
              ELSE [st EXCEPT !.texts = Append(@, getFallbackPrompt(extractStyle(prompt))),
                              !.phase = "fallback", !.attempt = 1]
         ELSE ReplayFail(st, <<"The AI model failed to generate an image. Details: ">> \o msg)
    ELSE ReplayFail(st, BothFailedMessage(msg))

ReplayStep(v, prompt, st, a) ==
    IF a.kind = "response"
    THEN LET r == processGeminiResponse(v, a.response) IN
         IF r.ok
         THEN [st EXCEPT !.resp = [status |-> 200,
                                   body |-> [imageUrl |-> r.url, success |-> TRUE,
                                             message |-> <<"Image generated successfully">>]]]
         ELSE ReplayCatch(prompt, st, r.message)
    ELSE IF ShouldRetry(a.message, st.attempt)
         THEN [st EXCEPT !.texts = Append(@, @[Len(@)]), !.attempt = @ + 1]
         ELSE ReplayCatch(prompt, st, a.message)

RECURSIVE Replay(_, _, _)
Replay(v, prompt, ans) ==
    IF ans = <<>>
    THEN [texts |-> <<prompt>>, phase |-> "primary", attempt |-> 1, resp |-> [status |-> 0]]
    ELSE ReplayStep(v, prompt, Replay(v, prompt, SubSeq(ans, 1, Len(ans) - 1)), ans[Len(ans)])

\* the upstream calls a task issues for (images, style) against the upstream
\* behaviours ans; handled is FALSE while the request has not reached the
\* handler, waiting is TRUE during a retry delay
TaskCalls(v, images, style, ans, handled, waiting) ==
    LET texts == Replay(v, PrimaryPrompt(style), ans).texts
        n     == IF ~handled THEN 0 ELSE IF waiting THEN Len(texts) - 1 ELSE Len(texts)
    IN  [i \in 1..n |-> [images |-> [j \in 1..Len(images) |-> InlineDataOf(images[j])],
                         text |-> texts[i]]]

\* what generateStyleImage settles with for an answer of the proxy
OutcomeOfAnswer(resp) ==
    IF AnswerError(resp) # <<>>
    THEN Reject(FriendlyError(AnswerError(resp)))
    ELSE Resolve(resp.body.imageUrl)

\* the outcome of a task for (images, style): of the handler's answer to the
\* upstream behaviours ans, or of the network's own answer
TaskOutcomes(v, style, ans, net) ==
    IF net = "unreached" THEN {Reject(FriendlyError(msg)) : msg \in FetchErrors}
    ELSE IF net = "proxy" THEN {OutcomeOfAnswer(reply) : reply \in ProxyReplies}
    ELSE {OutcomeOfAnswer(Replay(v, PrimaryPrompt(style), ans).resp)}

\* how the network behaved in this run
Net ==
    IF pc = "unreached" THEN "unreached"
    ELSE IF pc = "responded" /\ calls = <<>> THEN "proxy"
    ELSE "handler"

\* the entry a task writes for an outcome
EntryFor(outcome) ==
    IF outcome.ok THEN DoneImage(outcome.url) ELSE ErrorImage(outcome.error)

C28_StaleCompletionStillWritten ==
    [][/\ (ResetStep \/ UploadStep) =>
             /\ rounds' = rounds
             /\ regens' = regens
       /\ \A s \in StyleSet : Completes(s) =>
             /\ StatusOf(generatedImages', s) \in Terminal
             /\ OthersUnchanged(s)]_vars

\* a round is running and shows a terminal entry for a style whose call of
\* this round is still in flight or queued: the entry was written by the
\* completion of a call started before the handleReset that preceded the
\* round
C28_Witness ==
    /\ appState = "generating"
    /\ \E r \in RoundIds, s \in StyleSet :
          /\ Running(r)
          /\ \/ s \in rounds[r].inFlight
             \/ \E i \in 1..Len(rounds[r].stylesQueue) : rounds[r].stylesQueue[i] = s
          /\ StatusOf(generatedImages, s) \in Terminal
          /\ regens[s] = 0

\* q is what is left of the catalogue after its first styles were taken
IsSuffixOfStyles(q) ==
    /\ Len(q) <= Len(STYLES)
    /\ q = SubSeq(STYLES, Len(STYLES) - Len(q) + 1, Len(STYLES))

\* C29: a round has exactly 2 workers, each awaiting the call of one style
\* or exited; the queue is seeded with the six catalogue styles and only
\* loses its head, and the style taken is the one whose call starts in the
\* same step; the call of a style ends in the step that writes its outcome;
\* and the round ends only when the queue is empty.  So every style of the
\* catalogue is dequeued and processed exactly once.
C29_EachStyleOnce ==
    [][\A r \in RoundIds :
          /\ (~Running(r) /\ Running(r)') =>
                /\ rounds'[r].inFlight \cup Queued(r)' = StyleSet
                /\ Cardinality(rounds'[r].inFlight) = concurrencyLimit
                /\ rounds'[r].exited = 0
          /\ Running(r)' =>
                /\ Cardinality(rounds'[r].inFlight) + rounds'[r].exited = concurrencyLimit
                /\ IsSuffixOfStyles(rounds'[r].stylesQueue)
                /\ rounds'[r].inFlight \cap Queued(r)' = {}
          /\ (Running(r) /\ Running(r)') =>
                /\ Queued(r)' \subseteq Queued(r)
                /\ Queued(r) \ Queued(r)' = rounds'[r].inFlight \ rounds[r].inFlight
                /\ Cardinality(rounds'[r].inFlight \ rounds[r].inFlight) <= 1
                /\ rounds'[r].exited >= rounds[r].exited
                /\ \A s \in rounds[r].inFlight \ rounds'[r].inFlight :
                      StatusOf(generatedImages', s) \in Terminal
          /\ Settles(r) =>
                /\ rounds[r].stylesQueue = <<>>
                /\ \A s \in rounds[r].inFlight : StatusOf(generatedImages', s) \in Terminal]_vars

\* one worker still awaits the second style while the other has taken the
\* four styles after it, one by one, and awaits the last
C29_Witness ==
    \E r \in RoundIds :
        /\ Running(r)
        /\ rounds[r].stylesQueue = <<>>
        /\ rounds[r].inFlight = {STYLES[2], STYLES[Len(STYLES)]}
        /\ rounds[r].exited = 0
        /\ \A s \in StyleSet \ rounds[r].inFlight : StatusOf(generatedImages, s) \in Terminal

\* C30: the calls started by the workers of one round and not yet completed
\* are at most 2 after every step, and after the start of the round a style
\* leaves the queue only in a step in which a call of that round completes
\* and its 'done' or 'error' entry is written: exactly one style is taken,
\* by the worker whose call completed.
C30_DequeueOnlyAfterWrite ==
    [][\A r \in RoundIds :
          /\ RoundInFlightAll(r)' <= concurrencyLimit
          /\ (Running(r) /\ Running(r)' /\ Queued(r)' # Queued(r)) =>
                /\ Cardinality(Queued(r) \ Queued(r)') = 1
                /\ Queued(r) \ Queued(r)' = {Head(rounds[r].stylesQueue)}
                /\ \E s \in rounds[r].inFlight :
                      /\ rounds'[r].inFlight = (rounds[r].inFlight \ {s}) \cup {Head(rounds[r].stylesQueue)}
                      /\ StatusOf(generatedImages', s) \in Terminal
                      /\ OthersUnchanged(s)]_vars

\* the first call of the round has completed and its worker has taken the
\* third style; the other worker still awaits the second
C30_Witness ==
    \E r \in RoundIds :
        /\ Running(r)
        /\ rounds[r].inFlight = {STYLES[2], STYLES[3]}
        /\ Len(rounds[r].stylesQueue) = Len(STYLES) - 3
        /\ StatusOf(generatedImages, STYLES[1]) \in Terminal
        /\ StatusOf(generatedImages, STYLES[2]) = "pending"
        /\ StatusOf(generatedImages, STYLES[3]) = "pending"

\* C31: extractStyle applied to the primary prompt the frontend builds for a
\* catalogue style returns that style, so the fallback prompt of a request
\* names the style of its primary prompt; and whatever the prompt of the
\* request, extractStyle returns a catalogue style or null.
C31_ExtractStyleRecovers ==
    /\ \A st \in StyleSet : extractStyle(PrimaryPrompt(st)) = st
    /\ extractStyle(request.prompt) \in StyleSet \cup {NoStyle}
    /\ \A st \in StyleSet : request.prompt = PrimaryPrompt(st) =>
          /\ extractStyle(request.prompt) = st
          /\ \A i \in 1..Len(calls) :
                calls[i].text \in {PrimaryPrompt(st), getFallbackPrompt(st)}
    /\ \A i \in 1..Len(calls) :
          calls[i].text # request.prompt =>
             \E st \in StyleSet : calls[i].text = getFallbackPrompt(st)

\* the request carried the primary prompt of the last catalogue style and
\* the fallback prompt sent names that style
C31_Witness ==
    /\ request.prompt = PrimaryPrompt(STYLES[Len(STYLES)])
    /\ Len(calls) >= 2
    /\ calls[1].text = PrimaryPrompt(STYLES[Len(STYLES)])
    /\ calls[Len(calls)].text = getFallbackPrompt(STYLES[Len(STYLES)])

\* C32: the image sequence the tasks of a round send is the uploaded image
\* set at the start of the round, and it is the same for as long as the
\* round runs: no upload completion, reset or other step changes it.
C32_RoundImagesFixed ==
    [][\A r \in RoundIds :
          /\ (~Running(r) /\ Running(r)') =>
                /\ rounds'[r].images = uploadedImages
                /\ rounds'[r].images # <<>>
          /\ (Running(r) /\ Running(r)') =>
                rounds'[r].images = rounds[r].images]_vars

\* an upload has completed while the round is running: the uploaded image
\* set has grown, the images of the round have not
C32_Witness ==
    \E r \in RoundIds :
        /\ Running(r)
        /\ rounds[r].inFlight # {}
        /\ Len(rounds[r].images) = 1
        /\ Len(uploadedImages) = 2

\* the position of a style in the catalogue
StyleIndex(s) == CHOOSE i \in 1..Len(STYLES) : STYLES[i] = s

\* the styles whose call is started by round r in this step
StartedNow(r) ==
    IF Running(r) THEN rounds'[r].inFlight \ rounds[r].inFlight ELSE rounds'[r].inFlight

\* C33: a round starts its calls in catalogue order: when the call of a
\* style starts, no style that precedes it in STYLES is still in the queue,
\* every style still queued comes after it, and the calls started by the
\* round start are those of the first two catalogue styles.
C33_StartedInQueueOrder ==
    [][\A r \in RoundIds : Running(r)' =>
          /\ \A s \in StartedNow(r) :
                /\ \A t \in StyleSet : StyleIndex(t) < StyleIndex(s) => t \notin Queued(r)'
                /\ \A t \in Queued(r)' : StyleIndex(s) < StyleIndex(t)
          /\ ~Running(r) => StartedNow(r) = {STYLES[1], STYLES[2]}]_vars

\* completion order is free: the second style is done while the first is
\* still in flight
C33_Witness ==
    \E r \in RoundIds :
        /\ Running(r)
        /\ STYLES[1] \in rounds[r].inFlight
        /\ STYLES[2] \notin rounds[r].inFlight
        /\ STYLES[3] \in rounds[r].inFlight
        /\ StatusOf(generatedImages, STYLES[2]) \in Terminal
        /\ StatusOf(generatedImages, STYLES[1]) = "pending"

\* C34: at most one round is running, and appState is not 'image-uploaded'
\* while the workers of a round are running (so the Generate button, shown
\* only in 'image-uploaded', cannot start a second round).
C34_NoSecondRoundPossible ==
    /\ Cardinality({r \in RoundIds : Running(r)}) <= 1
    /\ appState = "image-uploaded" => \A r \in RoundIds : ~Running(r)

\* C35: while the cards are rendered, a style shown as pending gets no new
\* call: handleRegenerateStyle for it changes nothing.
C35_ShownPendingRefused ==
    [][\A s \in StyleSet :
          (/\ appState \in {"generating", "results-shown"}
           /\ ShownStatus(generatedImages, s) = "pending") =>
             /\ regens'[s] <= regens[s]
             /\ HandleRegenerateStyle(s) => UNCHANGED vars]_vars

\* a GeneratedImage value with the fields its status calls for
WellFormedEntry(e) ==
    /\ "status" \in DOMAIN e
    /\ e.status \in {"pending", "done", "error"}
    /\ e.status = "pending" => DOMAIN e = {"status"}
    /\ e.status = "done" => DOMAIN e = {"status", "url"} /\ e.url \in Urls /\ e.url # ""
    /\ e.status = "error" => DOMAIN e = {"status", "error"} /\ e.error \in ErrorMessages /\ e.error # ""

\* C36: every entry of the session map is well-formed: 'done' with the url
\* a generateStyleImage call for that style resolved to and no error,
\* 'error' with the message the call rejected with and no url, 'pending'
\* with neither; the entry a completing call writes is built from the
\* outcome of that call alone.
C36_EntriesWellFormed ==
    /\ [](/\ DOMAIN generatedImages \subseteq StyleSet
          /\ \A s \in DOMAIN generatedImages : WellFormedEntry(generatedImages[s]))
    /\ [][\A s \in StyleSet, o \in Outcomes :
            (CompleteRegenerate(s, o) \/ \E r \in RoundIds : CompleteRoundTask(r, s, o)) =>
               generatedImages'[s] = IF o.ok THEN [status |-> "done", url |-> o.url]
                                     ELSE [status |-> "error", error |-> o.error]]_vars

\* the map holds the three kinds of entry at once
C36_Witness ==
    /\ \E s \in DOMAIN generatedImages : generatedImages[s].status = "done"
    /\ \E s \in DOMAIN generatedImages : generatedImages[s].status = "error"
    /\ \E s \in DOMAIN generatedImages : generatedImages[s].status = "pending"
    /\ PendingRegens > 0

\* the instruction texts of the upstream calls issued so far
TextsOfCalls == [i \in 1..Len(calls) |-> calls[i].text]

\* C37: a request that the Netlify variant handles is handled as the Vercel
\* variant would handle it for the same upstream responses and errors: the
\* same instruction texts in the same order, an answer at the same point,
\* with the same status code and the same success flag.
C37_NetlifyEquivalentToVercel ==
    (variant = "netlify" /\ phase # "none") =>
        LET asVercel == Replay("vercel", request.prompt, answers) IN
            /\ TextsOfCalls = IF pc = "waiting"
                              THEN SubSeq(asVercel.texts, 1, Len(asVercel.texts) - 1)
                              ELSE asVercel.texts
            /\ pc = "responded" <=> asVercel.resp.status # 0
            /\ pc = "responded" =>
                  /\ response.status = asVercel.resp.status
                  /\ response.body.success = asVercel.resp.body.success

\* the checks of the handler before it calls generateStyleImage
FailsValidation(req) ==
    \/ ~req.imagesIsArray
    \/ Len(req.images) = 0
    \/ Len(req.prompt) = 0
    \/ \E i \in 1..Len(req.images) : ~StartsWithDataImage(req.images[i])

\* the upstream behaviour ended generateStyleImage with an image
EndedWithImage ==
    /\ answers # <<>>
    /\ answers[Len(answers)].kind = "response"
    /\ processGeminiResponse(variant, answers[Len(answers)].response).ok

\* C38: the handler is awaiting the upstream or has answered, it never ends
\* without a response; OPTIONS is answered 200 and any other method but POST
\* 405, a POST that fails validation 400, all three without an upstream
\* call; a POST that passes validation is answered 200 when generateStyleImage
\* returned an image and 500 for every error thrown.
C38_HandlerAlwaysResponds ==
    /\ pc \in {"received", "calling", "waiting", "responded"}
    /\ (request.method # "POST" \/ FailsValidation(request)) => calls = <<>> /\ pc \in {"received", "responded"}
    /\ pc = "responded" =>
          /\ response.status \in {200, 400, 405, 500}
          /\ request.method = "OPTIONS" => response.status = 200
          /\ request.method \notin {"POST", "OPTIONS"} => response.status = 405
          /\ (request.method = "POST" /\ FailsValidation(request)) => response.status = 400
          /\ (request.method = "POST" /\ ~FailsValidation(request)) =>
                /\ response.status = IF EndedWithImage THEN 200 ELSE 500
                /\ response.status = 500 => response.body.error = "Image generation failed"
    /\ pc \in {"calling", "waiting"} => calls # <<>>

\* an exception thrown before any upstream call (an image that starts with
\* data:image/ but is no base64 data URL) is answered 500
C38_Witness ==
    /\ request.method = "POST"
    /\ ~FailsValidation(request)
    /\ pc = "responded"
    /\ calls = <<>>
    /\ response.status = 500

\* the arguments generateStyleImage refuses before any request
InvalidInput ==
    \/ Len(client.images) = 0
    \/ IsBlank(client.prompt)
    \/ \E i \in 1..Len(client.images) : ~StartsWithDataImage(client.images[i])

\* the answer received has an ok status and a JSON body with success true
\* and a non-empty imageUrl
GoodAnswer ==
    /\ pc = "responded"
    /\ response.status \in 200..299
    /\ "body" \in DOMAIN response
    /\ "success" \in DOMAIN response.body
    /\ response.body.success = TRUE
    /\ "imageUrl" \in DOMAIN response.body
    /\ response.body.imageUrl # <<>>

\* C39: a settled generateStyleImage has resolved exactly when it sent its
\* request and received an ok answer whose body has success true and a
\* non-empty imageUrl, and then it resolved to that imageUrl; in every other
\* case (invalid input, rejected fetch, non-ok status, no JSON, success
\* false, no imageUrl) it has rejected with an error that has a message.
C39_ResolvesOnlyWithImageUrl ==
    client.state = "settled" =>
        /\ client.outcome.ok <=> (~InvalidInput /\ client.fetches = 1 /\ GoodAnswer)
        /\ client.outcome.ok =>
              /\ DOMAIN client.outcome = {"ok", "url"}
              /\ client.outcome.url = response.body.imageUrl
              /\ client.outcome.url # <<>>
        /\ ~client.outcome.ok =>
              /\ DOMAIN client.outcome = {"ok", "error"}
              /\ client.outcome.error # <<>>
        /\ InvalidInput => client.fetches = 0 /\ pc = "idle"

\* the answer had an ok status and an imageUrl but success false: rejected
C39_Witness ==
    /\ client.state = "settled"
    /\ pc = "responded"
    /\ response.status = 200
    /\ "body" \in DOMAIN response
    /\ "imageUrl" \in DOMAIN response.body
    /\ response.body.imageUrl # <<>>
    /\ response.body.success = FALSE
    /\ ~client.outcome.ok

\* C40: every upstream call of one request carries the image parts parsed
\* from the request's data URLs, all of them and in the request's order, so
\* the fallback call differs from the primary call in its text only; and
\* the data URLs are validated before the first call: a request with a URL
\* that is no base64 image data URL never gets a call.
C40_FallbackSameImageParts ==
    /\ \A i \in 1..Len(calls) :
          /\ Len(calls[i].images) = Len(request.images)
          /\ \A j \in 1..Len(request.images) :
                /\ calls[i].images[j].mimeType = request.images[j][2]
                /\ calls[i].images[j].data = request.images[j][4]
          /\ calls[i].images = calls[1].images
          /\ DOMAIN calls[i] = {"images", "text"}
          /\ calls[i].text # calls[1].text =>
                calls[i].text = getFallbackPrompt(extractStyle(request.prompt))
    /\ calls # <<>> => \A j \in 1..Len(request.images) : MatchesDataUrl(request.images[j])
    /\ (\E j \in 1..Len(request.images) : ~MatchesDataUrl(request.images[j])) => calls = <<>>

\* the fallback call of a request with two images of different types
C40_Witness ==
    /\ Len(calls) >= 2
    /\ calls[1].text = request.prompt
    /\ calls[Len(calls)].text # request.prompt
    /\ Len(request.images) = 2
    /\ request.images[1] # request.images[2]
    /\ calls[Len(calls)].images[1] # calls[Len(calls)].images[2]
    /\ calls[Len(calls)].images = calls[1].images

====
